---- MODULE Spec2Model ----
(***************************************************************************)
(* Model of dit_offload.py: the transfer engine that drives an rclone      *)
(* subprocess, the application handlers that start and stop a transfer and *)
(* react to the engine's events, and the verification pass launched when   *)
(* a transfer has finished.                                                *)
(*                                                                         *)
(* Threads of the program: the Tk main thread (start_transfer,             *)
(* stop_transfer, process_event), one launch_transfer thread per started   *)
(* transfer and one launch_verification thread per verification.  The      *)
(* event_loop thread hands every tuple of _event_queue to the main thread  *)
(* with after(0, ...), in the order it took them: the queue and Tk's list  *)
(* of pending callbacks are one first-in first-out queue here.             *)
(***************************************************************************)
EXTENDS Integers, Sequences, FiniteSets

\* Number of times start_transfer may launch a transfer in one behaviour.
MaxRuns == 2
\* Number of files a verification pass may find in the source tree.
MaxFiles == 1
\* Number of output lines one rclone process may write.
MaxLines == 1
\* Number of source files a verification pass followed file by file may list.
MaxTasks == 3
\* Number of tuples one worker thread puts on the queue while the hand-over
\* to the main thread is followed.
MaxEvents == 3
\* Number of tokens of an output line given to _process_rclone_line.
MaxLineLen == 4
\* Lines one rclone process writes while its output stream is followed.
MaxWritten == 3
\* Transfers started before the window's close button is used.
MaxRunsToClose == 1

Runs == 1..MaxRuns
None == 0
\* max_workers as verify_transfer defaults it and launch_verification passes it.
DefaultWorkers == 4

VARIABLES
    \* ProfessionalDITApp fields (written by the Tk main thread and by workers)
    is_transferring, aborted, is_verifying,
    engine,         \* self.engine: None or the engine of run r
    verifier,       \* self.verifier has been created
    start_btn, stop_btn, entry_state,
    event_queue,    \* self._event_queue
    ui,             \* position of the main thread: idle, or inside engine.stop()
    \* one TransferEngine and launch_transfer thread per run
    nruns,          \* transfers started so far
    tpc,            \* position of launch_transfer thread r
    running,        \* TransferEngine.running of engine r
    proc,           \* the subprocess of engine r
    \* the shared ChecksumVerifier and one launch_verification thread per pass
    vpc, vleft, vrunning, verified_count, failed_count, total_files,
    \* one call of ChecksumVerifier.verify_transfer, file by file
    source_files,   \* what the file system holds for each listed source file
    policy,         \* the arguments verify_checksum and verify_size
    max_workers,    \* the argument max_workers
    vt,             \* position of the thread inside verify_transfer
    future,         \* the task submitted for each source file
    failed_files,   \* the local list failed_files
    returned,       \* the tuple verify_transfer returned
    \* the hand-over of queued tuples to the main thread
    dl,             \* event_loop's local ev, Tk's pending callbacks, the producers
    \* one output line through _process_rclone_line and update_progress
    ps,             \* the line, where it is, what the progress text shows
    \* the request of one run and the settings in cfg_mgr
    rq,             \* what start_transfer captured, what each stage used
    \* the output stream of one rclone process through _monitor_output
    st,             \* lines written, unread, forwarded; position of the reader
    \* history, read by the properties only
    hist            \* what run r did, until its finished event is handled

appVars  == << is_transferring, aborted, is_verifying, engine, verifier,
               start_btn, stop_btn, entry_state >>
runVars  == << nruns, tpc, running, proc >>
auxVars  == << dl, ps, rq, st >>
passVars == << source_files, policy, max_workers, auxVars, vt, future,
               failed_files, returned >>
verVars  == << vpc, vleft, vrunning, verified_count, failed_count, total_files,
               passVars >>

vars == << appVars, event_queue, ui, runVars, verVars, hist >>

\* Everything but the queue and the parts followed in detail.
progVars == << appVars, ui, runVars, vpc, vleft, vrunning, verified_count,
               failed_count, total_files, source_files, policy, max_workers,
               vt, future, failed_files, returned, hist >>

(***************************************************************************)
(* Values                                                                  *)
(***************************************************************************)
\* What the file system answers for the paths of one transfer request.
\* dstParentOk: dst.parent exists or mkdir(parents=True) succeeds.
\* dstIsDir: os.path.isdir(destination) when the transfer has finished.
\* spaceOk: the destination's free space is at least the source's total size.
Requests ==
    { f \in [srcExists : BOOLEAN, dstParentOk : BOOLEAN, samePath : BOOLEAN,
             dstIsDir : BOOLEAN, spaceOk : BOOLEAN] :
        /\ f.dstIsDir => f.dstParentOk
        /\ f.samePath => f.srcExists }

\* The settings on_transfer_finished reads from cfg_mgr.
Settings == [verify_checksum : BOOLEAN, verify_file_size : BOOLEAN]

\* state: none (no Popen yet), alive, exited.  how: why it exited: "own" (by
\* itself, with exit code `code`), "term" (after terminate) or "kill".
\* term: terminate() has reached it.  stubborn: it ignores terminate().
\* written, pipe: lines written so far, lines in the pipe not yet read.
NoProc == [state |-> "none", code |-> 0, how |-> "none", term |-> FALSE,
           stubborn |-> FALSE, written |-> 0, pipe |-> 0]

\* pre: verdict of the pre-flight check; tool: what the rclone.exe probe
\* found, when run_transfer got to it; launch: how far run_transfer got;
\* errs: the error messages the run put on the queue; abort: "stop" once
\* stop_transfer has set aborted while the run was in Preflight or Copying;
\* exit: how the process ended, once run_transfer is through; space: for a
\* run that launched its process, whether the destination's free space was
\* at least the size of the source.
NoHist == [pre |-> "notrun", tool |-> "unknown", launch |-> "none", errs |-> {},
           abort |-> "none", exit |-> "none", space |-> "unknown"]

\* Tuples put on _event_queue; run is the run (or verification pass) that put it.
Ev(type, r, level, msg, v, f, t) ==
    [type |-> type, run |-> r, level |-> level, msg |-> msg,
     verified |-> v, failed |-> f, total |-> t]

LogEv(r, level, msg) == Ev("log", r, level, msg, 0, 0, 0)
FinishedEv(r) == Ev("finished", r, "", "", 0, 0, 0)
VerifyEv(type, r, v, f, t) == Ev(type, r, "", "", v, f, t)
\* No tuple.
NoEv == Ev("none", None, "", "", 0, 0, 0)

MsgNoSource   == "Source does not exist"
MsgNoMkdir    == "Cannot create destination directory"
MsgSamePath   == "Source and destination are the same"
MsgPreError   == "Pre-flight error"
MsgPreFailed  == "Pre-flight check failed"
MsgNoTool     == "rclone.exe not found"
MsgFailed     == "Transfer failed"

PreflightViolations == {MsgNoSource, MsgNoMkdir, MsgSamePath, MsgPreError}

Put(evs) == event_queue' = event_queue \o evs

(***************************************************************************)
(* subprocess.Popen: the process of engine r                               *)
(***************************************************************************)
\* Popen.terminate(): a signal to a live process, nothing on an exited one.
Terminate(p) == IF p.state = "alive" THEN [p EXCEPT !.term = TRUE] ELSE p

\* Popen.kill(): the process cannot refuse it.
Kill(p) == IF p.state = "alive"
           THEN [p EXCEPT !.state = "exited", !.code = 1, !.how = "kill"]
           ELSE p

\* Popen.poll() is None
PollIsNone(p) == p.state = "alive"

\* A variant of the test of the finally block that reads poll() the other
\* way round: a live process is left alone.
ProcessAndNotPoll_inverted(p) ==
    p.state = "exited" /\ p.code # 0

\* The test of the finally block, "self.process and not self.process.poll()":
\* there is a process, and poll() answers None (alive) or exit code 0.
ProcessAndNotPoll(p) ==
    /\ p.state # "none"
    /\ p.state = "alive" \/ (p.state = "exited" /\ p.code = 0)

\* The process of run r writes one line to its stdout pipe.
ProcWrite(r) ==
    /\ proc[r].state = "alive"
    /\ proc[r].written < MaxLines
    /\ proc' = [proc EXCEPT ![r].written = @ + 1, ![r].pipe = @ + 1]
    /\ UNCHANGED << appVars, event_queue, ui, nruns, tpc, running, verVars, hist >>

\* The process ends by itself, with exit code 0 or 1.
ProcExit(r) ==
    /\ proc[r].state = "alive"
    /\ \E c \in {0, 1} :
         proc' = [proc EXCEPT ![r].state = "exited", ![r].code = c, ![r].how = "own"]
    /\ UNCHANGED << appVars, event_queue, ui, nruns, tpc, running, verVars, hist >>

\* The process ends because it was asked to (terminate), unless it ignores that.
ProcTermExit(r) ==
    /\ proc[r].state = "alive"
    /\ proc[r].term
    /\ ~proc[r].stubborn
    /\ proc' = [proc EXCEPT ![r].state = "exited", ![r].code = 1, ![r].how = "term"]
    /\ UNCHANGED << appVars, event_queue, ui, nruns, tpc, running, verVars, hist >>

(***************************************************************************)
(* launch_transfer thread of run r: TransferEngine.run_transfer            *)
(***************************************************************************)
\* A variant of _pre_flight_check that also rejects a destination whose
\* free space is smaller than the source.
MsgNoSpace == "Not enough free space"

_pre_flight_check_space(f, raises) ==
    IF raises THEN MsgPreError
    ELSE IF ~f.srcExists THEN MsgNoSource
    ELSE IF ~f.dstParentOk THEN MsgNoMkdir
    ELSE IF f.samePath THEN MsgSamePath
    ELSE IF ~f.spaceOk THEN MsgNoSpace
    ELSE "ok"

\* TransferEngine._pre_flight_check: the error it reports, or "ok".
\* raises: one of the path probes raised (the except branch).
_pre_flight_check(f, raises) ==
    IF raises THEN MsgPreError
    ELSE IF ~f.srcExists THEN MsgNoSource
    ELSE IF ~f.dstParentOk THEN MsgNoMkdir
    ELSE IF f.samePath THEN MsgSamePath
    ELSE "ok"

\* launch_transfer: self.engine = TransferEngine(self, self.logger)
T_Launch(r) ==
    /\ tpc[r] = "launch"
    /\ engine' = r
    /\ tpc' = [tpc EXCEPT ![r] = "run"]
    /\ UNCHANGED << is_transferring, aborted, is_verifying, verifier, start_btn,
                    stop_btn, entry_state, event_queue, ui, nruns, running, proc,
                    verVars, hist >>

\* Variants of LaunchOutcome that the properties must tell from it: one that
\* launches whatever the pre-flight verdict, one that does not probe for
\* rclone.exe.
LaunchOutcome_unchecked(v, toolPresent, spawnOk) ==
    IF ~toolPresent THEN "notool"
    ELSE IF ~spawnOk THEN "spawnexc"
    ELSE "spawned"

LaunchOutcome_unprobed(v, toolPresent, spawnOk) ==
    IF v # "ok" THEN "preflight"
    ELSE IF ~spawnOk THEN "spawnexc"
    ELSE "spawned"

\* How far run_transfer gets before the streaming loop: the pre-flight
\* verdict v, then the rclone.exe probe, then Popen.
LaunchOutcome(v, toolPresent, spawnOk) ==
    IF v # "ok" THEN "preflight"
    ELSE IF ~toolPresent THEN "notool"
    ELSE IF ~spawnOk THEN "spawnexc"
    ELSE "spawned"

\* A variant of LaunchErrors that reports nothing.
LaunchErrors_silent(r, v, outcome) == << >>

\* The error tuples run_transfer and _pre_flight_check put for that outcome.
LaunchErrors(r, v, outcome) ==
    CASE outcome = "preflight" -> << LogEv(r, "ERROR", v), LogEv(r, "ERROR", MsgPreFailed) >>
      [] outcome = "notool"    -> << LogEv(r, "ERROR", MsgNoTool) >>
      [] outcome = "spawnexc"  -> << LogEv(r, "ERROR", MsgFailed) >>
      [] OTHER                 -> << >>

Msgs(evs) == { evs[i].msg : i \in 1..Len(evs) }

\* run_transfer from its first statement to Popen. A run that does not
\* spawn leaves through the finally block: running = False, put finished.
T_Run(r) ==
    /\ tpc[r] = "run"
    /\ \E f \in Requests, raises \in BOOLEAN, toolPresent \in BOOLEAN,
          spawnOk \in BOOLEAN, stubborn \in BOOLEAN :
         LET v   == _pre_flight_check(f, raises)
             out == LaunchOutcome(v, toolPresent, spawnOk)
             evs == LaunchErrors(r, v, out)
         IN  /\ hist' = [hist EXCEPT ![r].pre = v, ![r].launch = out,
                                     ![r].tool = IF v # "ok" THEN "unknown"
                                                 ELSE IF toolPresent THEN "present"
                                                 ELSE "missing",
                                     ![r].errs = @ \cup Msgs(evs),
                                     ![r].space = IF out # "spawned" THEN "unknown"
                                                  ELSE IF f.spaceOk THEN "enough"
                                                  ELSE "short"]
             /\ IF out = "spawned"
                THEN /\ proc' = [proc EXCEPT ![r] = [NoProc EXCEPT !.state = "alive",
                                                                  !.stubborn = stubborn]]
                     /\ running' = [running EXCEPT ![r] = TRUE]
                     /\ tpc' = [tpc EXCEPT ![r] = "monitor"]
                     /\ UNCHANGED event_queue
                ELSE /\ Put(evs \o << FinishedEv(r) >>)
                     /\ running' = [running EXCEPT ![r] = FALSE]
                     /\ tpc' = [tpc EXCEPT ![r] = "ret"]
                     /\ UNCHANGED proc
    /\ UNCHANGED << appVars, ui, nruns, verVars >>

\* _monitor_output, loop head: while running and process and poll() is None,
\* then the test of app.aborted (terminate and break).
T_Monitor(r) ==
    /\ tpc[r] = "monitor"
    /\ IF running[r] /\ PollIsNone(proc[r])
       THEN IF aborted
            THEN /\ proc' = [proc EXCEPT ![r] = Terminate(@)]
                 /\ tpc' = [tpc EXCEPT ![r] = "drain"]
            ELSE /\ tpc' = [tpc EXCEPT ![r] = "readline"]
                 /\ UNCHANGED proc
       ELSE /\ tpc' = [tpc EXCEPT ![r] = "drain"]
            /\ UNCHANGED proc
    /\ UNCHANGED << appVars, event_queue, ui, nruns, running, verVars, hist >>

\* process.stdout.readline(): blocks until a line or end of file; a line
\* goes through _process_rclone_line; then sleep and back to the loop head.
T_ReadLine(r) ==
    /\ tpc[r] = "readline"
    /\ \/ /\ proc[r].pipe > 0
          /\ proc' = [proc EXCEPT ![r].pipe = @ - 1]
          /\ Put(<< LogEv(r, "INFO", "line") >>)
       \/ /\ proc[r].pipe = 0
          /\ proc[r].state = "exited"
          /\ UNCHANGED << proc, event_queue >>
    /\ tpc' = [tpc EXCEPT ![r] = "monitor"]
    /\ UNCHANGED << appVars, ui, nruns, running, verVars, hist >>

\* The read or the line handling raises: the except branch of run_transfer
\* logs the failure and control passes to the finally block.
T_ReadRaises(r) ==
    /\ tpc[r] = "readline"
    /\ Put(<< LogEv(r, "ERROR", MsgFailed) >>)
    /\ hist' = [hist EXCEPT ![r].errs = @ \cup {MsgFailed}]
    /\ tpc' = [tpc EXCEPT ![r] = "finally"]
    /\ UNCHANGED << appVars, ui, nruns, running, proc, verVars >>

Lines(r, n) == [i \in 1..n |-> LogEv(r, "INFO", "line")]

\* process.communicate(): returns when the process has exited, with all the
\* output not yet read; every remaining line goes through _process_rclone_line.
T_Drain(r) ==
    /\ tpc[r] = "drain"
    /\ proc[r].state = "exited"
    /\ Put(Lines(r, proc[r].pipe))
    /\ proc' = [proc EXCEPT ![r].pipe = 0]
    /\ tpc' = [tpc EXCEPT ![r] = "finally"]
    /\ UNCHANGED << appVars, ui, nruns, running, verVars, hist >>

\* How the process p ended, for the history.
ExitOf(p) == IF p.how = "own" THEN (IF p.code = 0 THEN "own0" ELSE "own1") ELSE p.how

\* An exited process nothing will look at again: only that it has exited
\* is kept of it.
Reaped == [NoProc EXCEPT !.state = "exited"]

\* The end of the finally block, process p being what the block leaves:
\* running = False, put ("finished",).  With running False, stop() returns
\* at its first test, so nothing reads the process object from here on.
Finish(r, p) ==
    /\ running' = [running EXCEPT ![r] = FALSE]
    /\ Put(<< FinishedEv(r) >>)
    /\ hist' = [hist EXCEPT ![r].exit = ExitOf(p)]
    /\ proc' = [proc EXCEPT ![r] = IF p.state = "none" THEN p ELSE Reaped]
    /\ tpc' = [tpc EXCEPT ![r] = "ret"]

\* finally: if self.process and not self.process.poll(): terminate(), then
\* wait(timeout=5).  On an exited process terminate() does nothing and
\* wait() returns at once.
T_Finally(r) ==
    /\ tpc[r] = "finally"
    /\ IF ProcessAndNotPoll(proc[r])
       THEN /\ proc' = [proc EXCEPT ![r] = Terminate(@)]
            /\ tpc' = [tpc EXCEPT ![r] = "fwait"]
            /\ UNCHANGED << running, event_queue, hist >>
       ELSE Finish(r, proc[r])
    /\ UNCHANGED << appVars, ui, nruns, verVars >>

\* finally: wait(timeout=5) returns because the process has exited, or
\* raises TimeoutExpired and the process is killed.
T_FinallyWait(r) ==
    /\ tpc[r] = "fwait"
    /\ Finish(r, Kill(proc[r]))
    /\ UNCHANGED << appVars, ui, nruns, verVars >>

\* launch_transfer, finally: self.is_transferring = False
T_Ret(r) ==
    /\ tpc[r] = "ret"
    /\ is_transferring' = FALSE
    /\ tpc' = [tpc EXCEPT ![r] = "done"]
    /\ UNCHANGED << aborted, is_verifying, engine, verifier, start_btn, stop_btn,
                    entry_state, event_queue, ui, nruns, running, proc, verVars,
                    hist >>

(***************************************************************************)
(* Tk main thread: the handlers of ProfessionalDITApp                      *)
(***************************************************************************)
\* start_transfer, reachable through the Start button only.  The request
\* passes the input checks (both paths given, the two strings differ, a
\* valid chunk size); a request that fails them returns with nothing changed.
start_transfer ==
    /\ ui.pc = "idle"
    /\ start_btn = "normal"
    /\ nruns < MaxRuns
    /\ nruns' = nruns + 1
    /\ tpc' = [tpc EXCEPT ![nruns + 1] = "launch"]
    /\ is_transferring' = TRUE
    /\ aborted' = FALSE
    /\ start_btn' = "disabled"
    /\ stop_btn' = "normal"
    /\ entry_state' = "readonly"
    /\ UNCHANGED << is_verifying, engine, verifier, event_queue, ui, running, proc,
                    verVars, hist >>

\* The stage a run is in, as far as the program's state shows it.
Preflight(r) == tpc[r] \in {"launch", "run"}
Copying(r)   == tpc[r] \in {"monitor", "readline", "drain", "finally", "fwait"}
Verifying(r) == vpc[r] \in {"launch", "collect", "complete", "finally"}
InFlight(r)  == Preflight(r) \/ Copying(r) \/ Verifying(r)

\* The first test of stop_transfer.
StopAccepted == is_transferring /\ engine # None

\* The first test of TransferEngine.stop: it returns at once unless the
\* engine is running and has a process.
EngineStopActs(e) == running[e] /\ proc[e].state # "none"

\* stop_transfer, reachable through the Stop button only.  A click that fails
\* the first test, or is answered "no", returns with nothing changed.  Otherwise
\* aborted = True, then engine.stop(): terminate() and the start of
\* wait(timeout=5), during which the main thread is blocked.
stop_transfer ==
    /\ ui.pc = "idle"
    /\ stop_btn = "normal"
    /\ StopAccepted
    /\ aborted' = TRUE
    /\ stop_btn' = "disabled"
    /\ hist' = [r \in Runs |->
                  IF (Preflight(r) \/ Copying(r)) /\ hist[r].abort = "none"
                  THEN [hist[r] EXCEPT !.abort = "stop"] ELSE hist[r]]
    /\ IF EngineStopActs(engine)
       THEN /\ proc' = [proc EXCEPT ![engine] = Terminate(@)]
            /\ ui' = [pc |-> "stop_wait", e |-> engine]
       ELSE UNCHANGED << proc, ui >>
    /\ UNCHANGED << is_transferring, is_verifying, engine, verifier, start_btn,
                    entry_state, event_queue, nruns, tpc, running, verVars >>

\* TransferEngine.stop, second half: wait(timeout=5) returns because the
\* process has exited, or raises TimeoutExpired and the process is killed.
stop_wait ==
    /\ ui.pc = "stop_wait"
    /\ proc' = [proc EXCEPT ![ui.e] = Kill(@)]
    /\ ui' = [pc |-> "idle", e |-> None]
    /\ UNCHANGED << appVars, event_queue, nruns, tpc, running, verVars, hist >>

\* The test of on_transfer_finished that decides whether to verify: c is
\* what cfg_mgr holds and f what the file system answers for the entries.
WantsVerification(c, f) ==
    (c.verify_checksum \/ c.verify_file_size) /\ f.srcExists /\ f.dstIsDir

\* The file system does not change between the pre-flight check of the
\* latest run and the finished event: the answers agree with its verdict.
SameFileSystem(f) ==
    LET v == hist[nruns].pre
    IN  /\ v = MsgNoSource => ~f.srcExists
        /\ v = MsgNoMkdir => ~f.dstIsDir
        /\ v \in {MsgSamePath, "ok"} => f.srcExists
        /\ v = "ok" => ~f.samePath

\* on_transfer_finished, handling the finished event put by run r.
on_transfer_finished(r, c, f) ==
    IF engine = None
    THEN UNCHANGED << appVars, vpc, hist >>
    ELSE /\ is_transferring' = FALSE
         /\ aborted' = FALSE
         /\ start_btn' = "normal"
         /\ stop_btn' = "disabled"
         /\ entry_state' = "normal"
         /\ vpc' = IF WantsVerification(c, f) THEN [vpc EXCEPT ![r] = "launch"] ELSE vpc
         /\ hist' = [hist EXCEPT ![r] = [NoHist EXCEPT !.abort = hist[r].abort]]
         /\ UNCHANGED << is_verifying, engine, verifier >>

\* on_verification_start
on_verification_start ==
    /\ is_verifying' = TRUE
    /\ start_btn' = "disabled"
    /\ stop_btn' = "normal"
    /\ UNCHANGED << is_transferring, aborted, engine, verifier, entry_state, vpc, hist >>

\* A variant of on_verification_complete that leaves the run open, as if a
\* further stage were to follow.
on_verification_complete_pending ==
    /\ UNCHANGED << is_verifying, start_btn, stop_btn >>
    /\ UNCHANGED << is_transferring, aborted, engine, verifier, entry_state, vpc, hist >>

\* on_verification_complete
on_verification_complete ==
    /\ is_verifying' = FALSE
    /\ start_btn' = "normal"
    /\ stop_btn' = "disabled"
    /\ UNCHANGED << is_transferring, aborted, engine, verifier, entry_state, vpc, hist >>

\* process_event, run by the main thread for the oldest queued tuple.
\* log, progress, verify_progress and verify_error only draw on widgets.
process_event ==
    /\ ui.pc = "idle"
    /\ event_queue # << >>
    /\ event_queue' = Tail(event_queue)
    /\ LET ev == Head(event_queue)
       IN  CASE ev.type = "finished"        ->
                    \E c \in Settings, f \in Requests :
                        SameFileSystem(f) /\ on_transfer_finished(ev.run, c, f)
             [] ev.type = "verify_start"    -> on_verification_start
             [] ev.type = "verify_complete" -> on_verification_complete
             [] OTHER                       -> UNCHANGED << appVars, vpc, hist >>
    /\ UNCHANGED << ui, runVars, vleft, vrunning, verified_count, failed_count,
                    total_files, passVars >>

(***************************************************************************)
(* launch_verification thread of the pass started for run r                *)
(***************************************************************************)
\* launch_verification up to the as_completed loop: the verifier is created
\* on first use, is_verifying = True, verify_transfer resets the counters,
\* lists the source files and puts verify_start; an empty list puts
\* verify_complete and returns.
V_Launch(r) ==
    /\ vpc[r] = "launch"
    /\ verifier' = TRUE
    /\ is_verifying' = TRUE
    /\ vrunning' = TRUE
    /\ verified_count' = 0
    /\ failed_count' = 0
    /\ \E n \in 0..MaxFiles :
         /\ total_files' = n
         /\ vleft' = [vleft EXCEPT ![r] = n]
         /\ IF n = 0
            THEN /\ Put(<< VerifyEv("verify_start", r, 0, 0, 0),
                           VerifyEv("verify_complete", r, 0, 0, 0) >>)
                 /\ vpc' = [vpc EXCEPT ![r] = "finally"]
            ELSE /\ Put(<< VerifyEv("verify_start", r, 0, 0, n) >>)
                 /\ vpc' = [vpc EXCEPT ![r] = "collect"]
    /\ UNCHANGED << is_transferring, aborted, engine, start_btn, stop_btn,
                    entry_state, ui, runVars, passVars, hist >>

\* What future.result gives for one file: the file matches, it does not, or
\* the call raises (a timeout or another exception).
FileResults == {"success", "failure", "raises"}

\* One iteration of the as_completed loop: break when running is False,
\* else count the result of the next finished file; a result that was
\* returned puts verify_progress, one that raised does not.
V_Collect(r) ==
    /\ vpc[r] = "collect"
    /\ IF ~vrunning
       THEN /\ vpc' = [vpc EXCEPT ![r] = "complete"]
            /\ UNCHANGED << vleft, verified_count, failed_count, event_queue >>
       ELSE /\ \E res \in FileResults :
                 /\ verified_count' = IF res = "success" THEN verified_count + 1
                                      ELSE verified_count
                 /\ failed_count' = IF res = "success" THEN failed_count
                                    ELSE failed_count + 1
                 /\ IF res = "raises"
                    THEN UNCHANGED event_queue
                    ELSE Put(<< VerifyEv("verify_progress", r, verified_count',
                                         failed_count', total_files) >>)
            /\ vleft' = [vleft EXCEPT ![r] = @ - 1]
            /\ vpc' = [vpc EXCEPT ![r] = IF vleft[r] = 1 THEN "complete" ELSE "collect"]
    /\ UNCHANGED << appVars, ui, runVars, vrunning, total_files, passVars, hist >>

\* After the loop: put verify_complete with the counters.
V_Complete(r) ==
    /\ vpc[r] = "complete"
    /\ Put(<< VerifyEv("verify_complete", r, verified_count, failed_count, 0) >>)
    /\ vpc' = [vpc EXCEPT ![r] = "finally"]
    /\ UNCHANGED << appVars, ui, runVars, vleft, vrunning, verified_count,
                    failed_count, total_files, passVars, hist >>

\* The two finally blocks: verifier.running = False, is_verifying = False.
\* The counters are not read again before the next pass resets them: when
\* no other pass is using them they are shown as zero.
V_Finally(r) ==
    /\ vpc[r] = "finally"
    /\ vrunning' = FALSE
    /\ is_verifying' = FALSE
    /\ vpc' = [vpc EXCEPT ![r] = "done"]
    /\ vleft' = [vleft EXCEPT ![r] = 0]
    /\ IF \E o \in Runs \ {r} : Verifying(o)
       THEN UNCHANGED << verified_count, failed_count, total_files >>
       ELSE verified_count' = 0 /\ failed_count' = 0 /\ total_files' = 0
    /\ UNCHANGED << is_transferring, aborted, engine, verifier, start_btn, stop_btn,
                    entry_state, event_queue, ui, runVars, passVars, hist >>

(***************************************************************************)
(* The program                                                             *)
(***************************************************************************)
\* No call of verify_transfer is followed file by file.
NoReturn == [made |-> FALSE, verified |-> 0, failed |-> 0, failures |-> << >>]

NoPass ==
    /\ source_files = << >>
    /\ policy = [verify_checksum |-> FALSE, verify_size |-> FALSE]
    /\ max_workers = DefaultWorkers
    /\ vt = "idle"
    /\ future = << >>
    /\ failed_files = << >>
    /\ returned = NoReturn

\* The application after ProfessionalDITApp.__init__.
AppInit ==
    /\ is_transferring = FALSE
    /\ aborted = FALSE
    /\ is_verifying = FALSE
    /\ engine = None
    /\ verifier = FALSE
    /\ start_btn = "normal"
    /\ stop_btn = "disabled"
    /\ entry_state = "normal"
    /\ event_queue = << >>
    /\ ui = [pc |-> "idle", e |-> None]
    /\ nruns = 0
    /\ tpc = [r \in Runs |-> "idle"]
    /\ running = [r \in Runs |-> FALSE]
    /\ proc = [r \in Runs |-> NoProc]
    /\ vpc = [r \in Runs |-> "idle"]
    /\ vleft = [r \in Runs |-> 0]
    /\ vrunning = FALSE
    /\ verified_count = 0
    /\ failed_count = 0
    /\ total_files = 0
    /\ hist = [r \in Runs |-> NoHist]

\* Nothing is followed in detail: no tuple handed over, no line parsed, no
\* request captured, no stream read.
NoDelivery == [ev |-> NoEv, after |-> << >>, handled |-> << >>, produced |-> << >>]
NoParse    == [pc |-> "idle", line |-> << >>, shown |-> 0]
NoRequest  == [pc |-> "idle"]
NoStream   == [pc |-> "idle"]

NoAux == dl = NoDelivery /\ ps = NoParse /\ rq = NoRequest /\ st = NoStream

Init == AppInit /\ NoPass /\ NoAux

Next ==
    \/ start_transfer
    \/ stop_transfer
    \/ stop_wait
    \/ process_event
    \/ \E r \in Runs :
         \/ T_Launch(r) \/ T_Run(r) \/ T_Monitor(r) \/ T_ReadLine(r)
         \/ T_ReadRaises(r) \/ T_Drain(r) \/ T_Finally(r) \/ T_FinallyWait(r)
         \/ T_Ret(r)
         \/ ProcWrite(r) \/ ProcExit(r) \/ ProcTermExit(r)
         \/ V_Launch(r) \/ V_Collect(r) \/ V_Complete(r) \/ V_Finally(r)

Spec == Init /\ [][Next]_vars

(***************************************************************************)
(* One call of ChecksumVerifier.verify_transfer followed file by file: the *)
(* verify_transfer thread, the workers of its ThreadPoolExecutor running   *)
(* _verify_file, and ChecksumVerifier.stop called from another thread.     *)
(***************************************************************************)
\* What the file system holds for one listed source file: the destination
\* file has the same bytes; it is missing; its length differs; it has the
\* same length and other bytes; the source file is gone by the time its size
\* is asked for (os.path.getsize raises); a read of it never returns.
Kinds == {"identical", "missing", "size", "content", "vanished", "stalls"}

TaskLists == UNION { [1..n -> Kinds] : n \in 0..MaxTasks }

Policies == [verify_checksum : BOOLEAN, verify_size : BOOLEAN]

\* A pool smaller than the longest task list, and the default one.
PoolSizes == {MaxTasks - 1, DefaultWorkers}

MsgDstNotFound  == "Destination file not found"
MsgSizeMismatch == "File size mismatch"
MsgHashNone     == "Failed to calculate hash"
MsgHashMismatch == "Hash mismatch"
MsgOSError      == "No such file or directory"

\* st: none, queued (submitted), running (_verify_file up to the hashes),
\* hashing, stalled, done.  result: "success" or the error of the result.
\* hashed: _calculate_hash has been called for the task.  seen: the
\* as_completed loop has taken the future.  caught (history): the task was
\* executing when ChecksumVerifier.stop was called.
NoFuture == [st |-> "none", result |-> "none", hashed |-> FALSE, seen |-> FALSE,
             caught |-> FALSE]

Tasks == 1..Len(source_files)

Executing(i) == future[i].st \in {"running", "hashing", "stalled"}

\* ("verify_complete", verified, failed, failed_files)
VerifyCompleteEv(v, f, failures) ==
    [type |-> "verify_complete", run |-> None, level |-> "", msg |-> "",
     verified |-> v, failed |-> f, total |-> 0, failures |-> failures]

\* A variant of _verify_file without the os.path.exists test: getsize of the
\* missing destination raises.
_verify_file_no_exists(k, pol) ==
    IF k \in {"missing", "vanished"} THEN MsgOSError
    ELSE IF pol.verify_size /\ k = "size" THEN MsgSizeMismatch
    ELSE IF pol.verify_checksum THEN "hash"
    ELSE "success"

\* A variant of _verify_file that tests verify_checksum before the sizes.
_verify_file_hash_first(k, pol) ==
    IF k = "missing" THEN MsgDstNotFound
    ELSE IF k = "vanished" THEN MsgOSError
    ELSE IF pol.verify_checksum THEN "hash"
    ELSE IF pol.verify_size /\ k = "size" THEN MsgSizeMismatch
    ELSE "success"

\* _verify_file up to the hashes for a file of kind k: the error it returns,
\* "success", or "hash" when it goes on to compute the hashes.
_verify_file(k, pol) ==
    IF k = "missing" THEN MsgDstNotFound
    ELSE IF k = "vanished" THEN MsgOSError
    ELSE IF pol.verify_size /\ k = "size" THEN MsgSizeMismatch
    ELSE IF pol.verify_checksum THEN "hash"
    ELSE "success"

\* A variant of _calculate_hash whose chunk loop does not test self.running.
_calculate_hash_to_the_end(k, side, run) ==
    IF side = "dst" /\ k \in {"size", "content"} THEN "other digest"
    ELSE "digest"

\* A variant of _calculate_hash whose digest depends on which file is read.
_calculate_hash_by_side(k, side, run) ==
    IF ~run THEN "None" ELSE side

\* _calculate_hash of one side of a file of kind k; run is what the chunk
\* loop reads in self.running.
_calculate_hash(k, side, run) ==
    IF ~run THEN "None"
    ELSE IF side = "dst" /\ k \in {"size", "content"} THEN "other digest"
    ELSE "digest"

\* A variant of _verify_file from the hashes on that does not compare them.
_verify_file_hashes_uncompared(k, run) ==
    LET src_hash == _calculate_hash(k, "src", run)
        dst_hash == _calculate_hash(k, "dst", run)
    IN  IF src_hash = "None" \/ dst_hash = "None" THEN MsgHashNone
        ELSE "success"

\* _verify_file from the hashes on.
_verify_file_hashes(k, run) ==
    LET src_hash == _calculate_hash(k, "src", run)
        dst_hash == _calculate_hash(k, "dst", run)
    IN  IF src_hash = "None" \/ dst_hash = "None" THEN MsgHashNone
        ELSE IF src_hash # dst_hash THEN MsgHashMismatch
        ELSE "success"

\* verify_transfer up to the as_completed loop: running = True, the counters
\* reset, the files listed, verify_start put; an empty list puts
\* verify_complete and returns; otherwise every file is submitted.
verify_transfer_begin ==
    /\ vt = "idle"
    /\ vrunning' = TRUE
    /\ verified_count' = 0
    /\ failed_count' = 0
    /\ total_files' = Len(source_files)
    /\ IF Len(source_files) = 0
       THEN /\ Put(<< VerifyEv("verify_start", None, 0, 0, 0),
                      VerifyCompleteEv(0, 0, << >>) >>)
            /\ returned' = [made |-> TRUE, verified |-> 0, failed |-> 0,
                            failures |-> << >>]
            /\ vt' = "finally"
            /\ UNCHANGED future
       ELSE /\ Put(<< VerifyEv("verify_start", None, 0, 0, Len(source_files)) >>)
            /\ future' = [i \in Tasks |-> [NoFuture EXCEPT !.st = "queued"]]
            /\ vt' = "loop"
            /\ UNCHANGED returned
    /\ UNCHANGED << appVars, ui, runVars, vpc, vleft, source_files, policy,
                    max_workers, auxVars, failed_files, hist >>

\* A variant of PoolHasIdleWorker for a pool that starts a thread per task.
PoolHasIdleWorker_thread_per_task(n, limit) == TRUE

\* ThreadPoolExecutor(max_workers=limit) with n tasks executing: a worker
\* is idle or can still be created.
PoolHasIdleWorker(n, limit) == n < limit

\* A worker of the pool takes the oldest submitted task; the pool has at
\* most max_workers workers.
worker_start(i) ==
    /\ i \in DOMAIN future
    /\ future[i].st = "queued"
    /\ \A j \in 1..(i - 1) : future[j].st # "queued"
    /\ PoolHasIdleWorker(Cardinality({j \in DOMAIN future : Executing(j)}),
                         max_workers)
    /\ future' = [future EXCEPT ![i].st = "running"]
    /\ UNCHANGED << appVars, event_queue, ui, runVars, vpc, vleft, vrunning,
                    verified_count, failed_count, total_files, source_files,
                    policy, max_workers, auxVars, vt, failed_files, returned, hist >>

\* The worker runs _verify_file up to the hashes.
worker_verify_file(i) ==
    /\ i \in DOMAIN future
    /\ future[i].st = "running"
    /\ LET res == _verify_file(source_files[i], policy)
       IN  future' = IF source_files[i] = "stalls"
                     THEN [future EXCEPT ![i].st = "stalled"]
                     ELSE IF res = "hash"
                     THEN [future EXCEPT ![i].st = "hashing", ![i].hashed = TRUE]
                     ELSE [future EXCEPT ![i].st = "done", ![i].result = res]
    /\ UNCHANGED << appVars, event_queue, ui, runVars, vpc, vleft, vrunning,
                    verified_count, failed_count, total_files, source_files,
                    policy, max_workers, auxVars, vt, failed_files, returned, hist >>

\* The worker computes the two hashes and compares them.
worker_hash(i) ==
    /\ i \in DOMAIN future
    /\ future[i].st = "hashing"
    /\ future' = [future EXCEPT ![i].st = "done",
                                ![i].result = _verify_file_hashes(source_files[i],
                                                                  vrunning)]
    /\ UNCHANGED << appVars, event_queue, ui, runVars, vpc, vleft, vrunning,
                    verified_count, failed_count, total_files, source_files,
                    policy, max_workers, auxVars, vt, failed_files, returned, hist >>

\* The test at the head of the as_completed loop: if not self.running: break
LoopBreaks(run) == ~run

\* The entry appended to failed_files for file i.
FailureEntry(i, err) == [file |-> i, error |-> err]

\* A variant of AfterFuture that leaves the loop at the last submitted
\* future instead of the last completed one.
AfterFuture_last_submitted(i) ==
    IF i = Len(source_files) THEN "exit" ELSE "loop"

\* The position after future i has been dealt with.
AfterFuture(i) ==
    IF \A j \in DOMAIN future : j # i => future[j].seen THEN "exit" ELSE "loop"

\* A variant of as_completed_next whose except branch counts the failure
\* and appends nothing to failed_files.
as_completed_next_unlisted(i) ==
    /\ vt = "loop"
    /\ i \in DOMAIN future
    /\ future[i].st = "done"
    /\ ~future[i].seen
    /\ IF LoopBreaks(vrunning)
       THEN /\ vt' = "exit"
            /\ UNCHANGED << future, verified_count, failed_count, failed_files,
                            event_queue >>
       ELSE /\ future' = [future EXCEPT ![i].seen = TRUE]
            /\ vt' = AfterFuture(i)
            /\ IF source_files[i] = "vanished"
               THEN /\ failed_count' = failed_count + 1
                    /\ UNCHANGED << failed_files, verified_count, event_queue >>
               ELSE IF future[i].result = "success"
               THEN /\ verified_count' = verified_count + 1
                    /\ Put(<< VerifyEv("verify_progress", None, verified_count',
                                       failed_count, total_files) >>)
                    /\ UNCHANGED << failed_count, failed_files >>
               ELSE /\ failed_count' = failed_count + 1
                    /\ failed_files' = Append(failed_files,
                                              FailureEntry(i, future[i].result))
                    /\ Put(<< VerifyEv("verify_progress", None, verified_count,
                                       failed_count', total_files) >>)
                    /\ UNCHANGED verified_count
    /\ UNCHANGED << appVars, ui, runVars, vpc, vleft, vrunning, total_files,
                    source_files, policy, max_workers, auxVars, returned, hist >>

\* One iteration of the as_completed loop, for a completed future i: break
\* when running is False; os.path.getsize(src_file) raising counts a failure
\* without a progress event; otherwise the result is counted and
\* verify_progress put.
as_completed_next(i) ==
    /\ vt = "loop"
    /\ i \in DOMAIN future
    /\ future[i].st = "done"
    /\ ~future[i].seen
    /\ IF LoopBreaks(vrunning)
       THEN /\ vt' = "exit"
            /\ UNCHANGED << future, verified_count, failed_count, failed_files,
                            event_queue >>
       ELSE /\ future' = [future EXCEPT ![i].seen = TRUE]
            /\ vt' = AfterFuture(i)
            /\ IF source_files[i] = "vanished"
               THEN /\ failed_count' = failed_count + 1
                    /\ failed_files' = Append(failed_files,
                                              FailureEntry(i, MsgOSError))
                    /\ UNCHANGED << verified_count, event_queue >>
               ELSE IF future[i].result = "success"
               THEN /\ verified_count' = verified_count + 1
                    /\ Put(<< VerifyEv("verify_progress", None, verified_count',
                                       failed_count, total_files) >>)
                    /\ UNCHANGED << failed_count, failed_files >>
               ELSE /\ failed_count' = failed_count + 1
                    /\ failed_files' = Append(failed_files,
                                              FailureEntry(i, future[i].result))
                    /\ Put(<< VerifyEv("verify_progress", None, verified_count,
                                       failed_count', total_files) >>)
                    /\ UNCHANGED verified_count
    /\ UNCHANGED << appVars, ui, runVars, vpc, vleft, vrunning, total_files,
                    source_files, policy, max_workers, auxVars, returned, hist >>

\* The end of the with block waits for every submitted task (shutdown with
\* wait=True); then verify_complete is put and the counts returned.
verify_transfer_complete ==
    /\ vt = "exit"
    /\ \A i \in DOMAIN future : future[i].st = "done"
    /\ Put(<< VerifyCompleteEv(verified_count, failed_count, failed_files) >>)
    /\ returned' = [made |-> TRUE, verified |-> verified_count,
                    failed |-> failed_count, failures |-> failed_files]
    /\ vt' = "finally"
    /\ UNCHANGED << appVars, ui, runVars, vpc, vleft, vrunning, verified_count,
                    failed_count, total_files, source_files, policy, max_workers, auxVars,
                    future, failed_files, hist >>

\* finally: self.running = False
verify_transfer_finally ==
    /\ vt = "finally"
    /\ vrunning' = FALSE
    /\ vt' = "returned"
    /\ UNCHANGED << appVars, event_queue, ui, runVars, vpc, vleft, verified_count,
                    failed_count, total_files, source_files, policy, max_workers, auxVars,
                    future, failed_files, returned, hist >>

\* ChecksumVerifier.stop, called by on_close while the pass is running.
ChecksumVerifier_stop ==
    /\ vt \in {"loop", "exit"}
    /\ vrunning
    /\ vrunning' = FALSE
    /\ future' = [i \in DOMAIN future |->
                    [future[i] EXCEPT !.caught = Executing(i)]]
    /\ UNCHANGED << appVars, event_queue, ui, runVars, vpc, vleft, verified_count,
                    failed_count, total_files, source_files, policy, max_workers, auxVars,
                    vt, failed_files, returned, hist >>

VerifyInit ==
    /\ AppInit
    /\ NoAux
    /\ source_files \in TaskLists
    /\ policy \in Policies
    /\ max_workers \in PoolSizes
    /\ vt = "idle"
    /\ future = << >>
    /\ failed_files = << >>
    /\ returned = NoReturn

VerifyNext ==
    \/ verify_transfer_begin
    \/ \E i \in 1..MaxTasks :
         \/ worker_start(i) \/ worker_verify_file(i) \/ worker_hash(i)
         \/ as_completed_next(i)
    \/ verify_transfer_complete
    \/ verify_transfer_finally
    \/ ChecksumVerifier_stop

VerifySpec == VerifyInit /\ [][VerifyNext]_vars

\* The pass with its threads scheduled: the verify_transfer thread and every
\* pool worker that can take a step eventually takes one.  Nothing makes
\* ChecksumVerifier.stop be called, and a read that hangs stays hung.
WorkerStep(i) == worker_start(i) \/ worker_verify_file(i) \/ worker_hash(i)

VerifierThread ==
    \/ verify_transfer_begin
    \/ \E i \in 1..MaxTasks : as_completed_next(i)
    \/ verify_transfer_complete
    \/ verify_transfer_finally

VerifyFairness ==
    /\ WF_vars(VerifierThread)
    /\ \A i \in 1..MaxTasks : WF_vars(WorkerStep(i))

FairVerifySpec == VerifySpec /\ VerifyFairness


(***************************************************************************)
(* The hand-over of queued tuples to the main thread: worker threads put   *)
(* tuples on _event_queue, the event_loop thread takes them one by one and *)
(* schedules process_event with after(0, ...), and Tk's main loop runs the *)
(* pending callbacks.                                                      *)
(***************************************************************************)
\* The k-th tuple the worker thread of run r puts.
ProgressEv(r, k) == Ev("progress", r, "", "", k, 0, 0)

\* A worker thread puts its next tuple: Queue.put appends.
worker_put(r) ==
    /\ dl.produced[r] < MaxEvents
    /\ Put(<< ProgressEv(r, dl.produced[r] + 1) >>)
    /\ dl' = [dl EXCEPT !.produced[r] = @ + 1]
    /\ UNCHANGED << progVars, ps, rq, st >>

\* queue.Queue.get: the position of the tuple it returns, the oldest.
QueueGet(q) == 1

\* The sequence q without its n-th element.
Without(q, n) == SubSeq(q, 1, n - 1) \o SubSeq(q, n + 1, Len(q))

\* event_loop: ev = self._event_queue.get(timeout=0.1)
event_loop_get ==
    /\ dl.ev = NoEv
    /\ event_queue # << >>
    /\ dl' = [dl EXCEPT !.ev = event_queue[QueueGet(event_queue)]]
    /\ event_queue' = Without(event_queue, QueueGet(event_queue))
    /\ UNCHANGED << progVars, ps, rq, st >>

\* event_loop: self.after(0, lambda e=ev: self.process_event(e)); the
\* callback keeps the tuple it was created for, and Tk adds a timer handler
\* behind those already due.
event_loop_after ==
    /\ dl.ev # NoEv
    /\ dl' = [dl EXCEPT !.after = Append(@, dl.ev), !.ev = NoEv]
    /\ UNCHANGED << progVars, event_queue, ps, rq, st >>

\* A variant of NextCallback for a main loop that runs the newest callback.
NextCallback_newest(pending) == Len(pending)

\* Tk's main loop: the position of the pending callback it runs next, the
\* one scheduled first.
NextCallback(pending) == 1

\* The main loop runs a pending callback: process_event(e).
mainloop_callback ==
    /\ dl.after # << >>
    /\ dl' = [dl EXCEPT !.handled = Append(@, dl.after[NextCallback(dl.after)]),
                        !.after = Without(@, NextCallback(dl.after))]
    /\ UNCHANGED << progVars, event_queue, ps, rq, st >>

DeliveryInit ==
    /\ AppInit
    /\ NoPass
    /\ dl = [NoDelivery EXCEPT !.produced = [r \in Runs |-> 0]]
    /\ ps = NoParse /\ rq = NoRequest /\ st = NoStream

DeliveryNext ==
    \/ \E r \in Runs : worker_put(r)
    \/ event_loop_get
    \/ event_loop_after
    \/ mainloop_callback

DeliverySpec == DeliveryInit /\ [][DeliveryNext]_vars

(***************************************************************************)
(* One output line of rclone through _process_rclone_line, _parse_progress *)
(* and, on the main thread, process_event and update_progress.             *)
(***************************************************************************)
\* A line is a sequence of tokens, each standing for the characters the
\* regular expressions of _parse_progress tell apart: runs of digits, a
\* decimal number, a run of digits longer than int() converts, a duration,
\* the signs, white space, a unit followed by /s, the words.
Numbers  == {"45", "100", "150"}
Numeric  == Numbers \cup {"1.5", "huge"}
DigitRun == Numeric \cup {"3m2s"}
Tokens   == DigitRun \cup {"%", "-", " ", "MiB/s", "ETA", "A/b.mov", ":",
                           "Transferred:", "error"}

\* The lines _monitor_output passes on: stripped and not empty, and cut into
\* tokens so that a run of digits, letters of a duration or blanks is one token.
OutputLines ==
    { l \in UNION { [1..n -> Tokens] : n \in 1..MaxLineLen } :
        /\ l[1] # " " /\ l[Len(l)] # " "
        /\ \A i \in 1..(Len(l) - 1) :
              /\ ~(l[i] \in DigitRun /\ l[i + 1] \in DigitRun)
              /\ ~(l[i] = " " /\ l[i + 1] = " ") }

\* The least element of a non-empty set of positions.
First(S) == CHOOSE i \in S : \A j \in S : i <= j

\* re.search(r'(\d+)%', line): the positions where digits are directly
\* followed by a percent sign; the leftmost one is the match.
PercentMatches(l) ==
    { i \in 1..(Len(l) - 1) : l[i] \in Numeric /\ l[i + 1] = "%" }

\* group(1) of the match at token t: the digits directly before the sign.
PercentDigits(t) == IF t = "1.5" THEN "5" ELSE t

\* int(s) for a run of digits s.
int(s) ==
    CASE s = "45" -> 45 [] s = "100" -> 100 [] s = "150" -> 150 [] s = "5" -> 5
      [] OTHER -> 0

\* int(s) raises ValueError: the run is longer than the conversion limit.
IntRaises(s) == s = "huge"

\* re.search(r'([\d.]+)\s*([KMG]?i?B)/s', line): digits and dots, optional
\* white space, a unit and /s; group(0) is all of it.
SpeedMatches(l) ==
    { i \in 1..(Len(l) - 1) :
        /\ l[i] \in Numeric
        /\ \/ l[i + 1] = "MiB/s"
           \/ i + 2 <= Len(l) /\ l[i + 1] = " " /\ l[i + 2] = "MiB/s" }

SpeedOf(l) ==
    IF SpeedMatches(l) = {} THEN << "N/A" >>
    ELSE LET i == First(SpeedMatches(l))
         IN  IF l[i + 1] = "MiB/s" THEN SubSeq(l, i, i + 1) ELSE SubSeq(l, i, i + 2)

\* re.search(r'ETA\s*([\dhms]+)', line): group(1) is the run of digits and
\* h, m, s after ETA and optional white space.
EtaAt(l, i) ==
    IF l[i] # "ETA" THEN 0
    ELSE IF i + 1 <= Len(l) /\ l[i + 1] \in DigitRun THEN i + 1
    ELSE IF i + 2 <= Len(l) /\ l[i + 1] = " " /\ l[i + 2] \in DigitRun THEN i + 2
    ELSE 0

EtaMatches(l) == { i \in 1..Len(l) : EtaAt(l, i) # 0 }

EtaOf(l) ==
    IF EtaMatches(l) = {} THEN "N/A"
    ELSE LET t == l[EtaAt(l, First(EtaMatches(l)))]
         IN  IF t = "1.5" THEN "1" ELSE t

\* What _parse_progress gives: None, a triple, or an exception that leaves it.
NoTriple == [kind |-> "none", percent |-> 0, speed |-> << "N/A" >>, eta |-> "N/A",
             debug |-> FALSE]

\* The body of the try block of _parse_progress.
ParseBody(l) ==
    IF PercentMatches(l) = {} THEN NoTriple
    ELSE LET digits == PercentDigits(l[First(PercentMatches(l))])
         IN  IF IntRaises(digits)
             THEN [NoTriple EXCEPT !.kind = "raised"]
             ELSE [kind |-> "triple", percent |-> int(digits), speed |-> SpeedOf(l),
                   eta |-> EtaOf(l), debug |-> FALSE]

\* A variant of _parse_progress without the try block.
_parse_progress_unguarded(l) == ParseBody(l)

\* _parse_progress: an exception in the body puts a DEBUG log and gives None.
_parse_progress(l) ==
    IF ParseBody(l).kind = "raised"
    THEN [NoTriple EXCEPT !.debug = TRUE]
    ELSE ParseBody(l)

\* ("progress", percent, speed, eta)
ProgressTuple(percent, speed, eta) ==
    [type |-> "progress", run |-> None, level |-> "", msg |-> << >>,
     percent |-> percent, speed |-> speed, eta |-> eta]

\* ("log", level, line) for a line of output
LineLog(level, l) ==
    [type |-> "log", run |-> None, level |-> level, msg |-> l]

MsgParseFailed == << "Failed to parse progress" >>

\* any(indicator in line.lower() for "error", "failed", "fatal", ...)
HasErrorIndicator(l) == \E i \in DOMAIN l : l[i] = "error"

\* A line of the per-file shape: a path followed by a colon or by a bare
\* percentage, and no summary marker.
PerFileLine(l) ==
    /\ \A i \in DOMAIN l : l[i] # "Transferred:"
    /\ \E i \in 1..(Len(l) - 1) :
          /\ l[i] = "A/b.mov"
          /\ \/ l[i + 1] = ":"
             \/ i + 1 \in PercentMatches(l)
             \/ l[i + 1] = " " /\ i + 2 \in PercentMatches(l)

\* A variant of _process_rclone_line that reports no progress for a line of
\* the per-file shape.
_process_rclone_line_aggregate_only(l) ==
    LET m == _parse_progress(l)
    IN  << LineLog("INFO", l) >>
        \o (IF m.debug THEN << LineLog("DEBUG", MsgParseFailed) >> ELSE << >>)
        \o (IF m.kind = "triple" /\ ~PerFileLine(l)
            THEN << ProgressTuple(m.percent, m.speed, m.eta) >> ELSE << >>)
        \o (IF HasErrorIndicator(l) THEN << LineLog("ERROR", l) >> ELSE << >>)

\* _process_rclone_line: the tuples it puts for the line l, in order.
_process_rclone_line(l) ==
    LET m == _parse_progress(l)
    IN  << LineLog("INFO", l) >>
        \o (IF m.debug THEN << LineLog("DEBUG", MsgParseFailed) >> ELSE << >>)
        \o (IF m.kind = "triple"
            THEN << ProgressTuple(m.percent, m.speed, m.eta) >> ELSE << >>)
        \o (IF HasErrorIndicator(l) THEN << LineLog("ERROR", l) >> ELSE << >>)

\* The engine thread passes the line to _process_rclone_line.  An exception
\* leaving _parse_progress would leave _process_rclone_line after the INFO
\* log and end the streaming loop.
process_rclone_line ==
    /\ ps.pc = "line"
    /\ IF _parse_progress(ps.line).kind = "raised"
       THEN /\ Put(<< LineLog("INFO", ps.line) >>)
            /\ ps' = [ps EXCEPT !.pc = "raised"]
       ELSE /\ Put(_process_rclone_line(ps.line))
            /\ ps' = [ps EXCEPT !.pc = "put"]
    /\ UNCHANGED << progVars, dl, rq, st >>

\* A variant of update_progress without the range test.
update_progress_unchecked(shown, percent) == percent

\* update_progress: what the progress bar and text show after the call; a
\* percentage outside 0..100 returns before anything is drawn.
update_progress(shown, percent) ==
    IF ~(0 <= percent /\ percent <= 100) THEN shown ELSE percent

\* The main thread handles the oldest tuple of the line: log tuples go to
\* append_log, a progress tuple to update_progress.
line_process_event ==
    /\ ps.pc \in {"put", "raised"}
    /\ event_queue # << >>
    /\ event_queue' = Tail(event_queue)
    /\ ps' = IF Head(event_queue).type = "progress"
             THEN [ps EXCEPT !.shown = update_progress(@, Head(event_queue).percent)]
             ELSE ps
    /\ UNCHANGED << progVars, dl, rq, st >>

ParseInit ==
    /\ AppInit
    /\ NoPass
    /\ ps \in { [pc |-> "line", line |-> l, shown |-> 0] : l \in OutputLines }
    /\ dl = NoDelivery /\ rq = NoRequest /\ st = NoStream

ParseNext == process_rclone_line \/ line_process_event

ParseSpec == ParseInit /\ [][ParseNext]_vars

(***************************************************************************)
(* The request of one run: what start_transfer captures, and what the copy *)
(* and the verification read later from the entries and from cfg_mgr.      *)
(***************************************************************************)
Paths == {"/a", "/b"}
Algorithms == {"md5", "sha1", "sha256", "sha512"}

\* The settings held by cfg_mgr.
Configs == [verify_checksum : BOOLEAN, verify_file_size : BOOLEAN,
            checksum_algorithm : Algorithms]

\* What a stage has not used yet.
Unused == [source |-> "", destination |-> "", verify_checksum |-> FALSE,
           verify_size |-> FALSE, algorithm |-> ""]

\* Entry.delete and Entry.insert: a readonly entry keeps its text.
EntrySet(state, old, new) == IF state = "readonly" THEN old ELSE new

\* browse_source, browse_destination: the chosen path goes into the entry.
browse_source ==
    /\ \E path \in Paths :
         rq' = [rq EXCEPT !.source_entry = EntrySet(rq.entry_state, @, path)]
    /\ UNCHANGED << progVars, event_queue, dl, ps, st >>

browse_destination ==
    /\ \E path \in Paths :
         rq' = [rq EXCEPT !.dest_entry = EntrySet(rq.entry_state, @, path)]
    /\ UNCHANGED << progVars, event_queue, dl, ps, st >>

\* The settings handlers write cfg_mgr whenever the user changes a control.
on_verify_checksum_change ==
    /\ \E enable \in BOOLEAN : rq' = [rq EXCEPT !.cfg.verify_checksum = enable]
    /\ UNCHANGED << progVars, event_queue, dl, ps, st >>

on_verify_size_change ==
    /\ \E enable \in BOOLEAN : rq' = [rq EXCEPT !.cfg.verify_file_size = enable]
    /\ UNCHANGED << progVars, event_queue, dl, ps, st >>

on_algorithm_change ==
    /\ \E choice \in Algorithms : rq' = [rq EXCEPT !.cfg.checksum_algorithm = choice]
    /\ UNCHANGED << progVars, event_queue, dl, ps, st >>

\* start_transfer: the texts of the two entries are read into the locals the
\* launch_transfer closure keeps, and the entries are made readonly.
request_start_transfer ==
    /\ rq.pc = "idle"
    /\ rq.source_entry # rq.dest_entry
    /\ rq' = [rq EXCEPT !.pc = "started", !.entry_state = "readonly",
                        !.source = rq.source_entry,
                        !.destination = rq.dest_entry,
                        !.atstart = rq.cfg]
    /\ UNCHANGED << progVars, event_queue, dl, ps, st >>

\* run_transfer, building the command: --checksum is appended if
\* cfg_mgr.verify_checksum is set at that moment.
CopyChecksum(r) == r.cfg.verify_checksum

request_run_transfer ==
    /\ rq.pc = "started"
    /\ rq' = [rq EXCEPT !.pc = "copying",
                        !.copy = [Unused EXCEPT !.source = rq.source,
                                                !.destination = rq.destination,
                                                !.verify_checksum = CopyChecksum(rq)]]
    /\ UNCHANGED << progVars, event_queue, dl, ps, st >>

\* on_transfer_finished: the entries are made normal and read again, and
\* cfg_mgr decides whether a verification is launched.
request_on_transfer_finished ==
    /\ rq.pc = "copying"
    /\ rq' = [rq EXCEPT !.pc = IF rq.cfg.verify_checksum \/ rq.cfg.verify_file_size
                               THEN "finished" ELSE "done",
                        !.entry_state = "normal",
                        !.source = rq.source_entry,
                        !.destination = rq.dest_entry]
    /\ UNCHANGED << progVars, event_queue, dl, ps, st >>

\* launch_verification: verify_transfer is called with the paths read by
\* on_transfer_finished and with what cfg_mgr holds when the thread runs.
request_launch_verification ==
    /\ rq.pc = "finished"
    /\ rq' = [rq EXCEPT !.pc = "done",
                        !.verify = [source |-> rq.source,
                                    destination |-> rq.destination,
                                    verify_checksum |-> rq.cfg.verify_checksum,
                                    verify_size |-> rq.cfg.verify_file_size,
                                    algorithm |-> rq.cfg.checksum_algorithm]]
    /\ UNCHANGED << progVars, event_queue, dl, ps, st >>

RequestInit ==
    /\ AppInit
    /\ NoPass
    /\ \E c \in Configs, s \in Paths, d \in Paths :
         rq = [pc |-> "idle", cfg |-> c, source_entry |-> s, dest_entry |-> d,
               entry_state |-> "normal", source |-> "", destination |-> "",
               atstart |-> c, copy |-> Unused, verify |-> Unused]
    /\ dl = NoDelivery /\ ps = NoParse /\ st = NoStream

RequestNext ==
    \/ browse_source
    \/ browse_destination
    \/ on_verify_checksum_change
    \/ on_verify_size_change
    \/ on_algorithm_change
    \/ request_start_transfer
    \/ request_run_transfer
    \/ request_on_transfer_finished
    \/ request_launch_verification

RequestSpec == RequestInit /\ [][RequestNext]_vars

(***************************************************************************)
(* The output of one rclone process through _monitor_output: the streaming *)
(* loop, the drain by communicate(), and the except and finally blocks of  *)
(* run_transfer around them.                                               *)
(***************************************************************************)
\* Bytes the codec of the pipe's text wrapper cannot decode.
Undecodable == << "0x81" >>

\* What the process writes as one line: a progress line, a line with an
\* error word, white space only, or a line with undecodable bytes.
StreamTexts == { << "Transferred:", " ", "45", "%" >>, << "error" >>, << >>,
                 Undecodable }

\* line.strip() is not empty.
NonBlank(line) == line.text # << >>

\* The tuples _process_rclone_line puts for a line, each with the number of
\* the line it stands for.
Forwarded(line) ==
    [n \in 1..Len(_process_rclone_line(line.text)) |->
        [id |-> line.id, tuple |-> _process_rclone_line(line.text)[n]]]

RECURSIVE ForwardedAll(_)
ForwardedAll(lines) ==
    IF lines = << >> THEN << >>
    ELSE (IF NonBlank(Head(lines)) THEN Forwarded(Head(lines)) ELSE << >>)
         \o ForwardedAll(Tail(lines))

\* Some line waiting in the pipe cannot be decoded.
HoldsUndecodable(pipe) == \E n \in DOMAIN pipe : pipe[n].text = Undecodable

\* The process writes one more line.
stream_write ==
    /\ st.pc \notin {"idle", "returned"}
    /\ st.proc = "alive"
    /\ Len(st.written) < MaxWritten
    /\ \E t \in StreamTexts :
         LET line == [id |-> Len(st.written) + 1, text |-> t]
         IN  st' = [st EXCEPT !.written = Append(@, line), !.pipe = Append(@, line)]
    /\ UNCHANGED << progVars, event_queue, dl, ps, rq >>

\* The process exits, by itself or after terminate().
stream_exit ==
    /\ st.pc \notin {"idle", "returned"}
    /\ st.proc = "alive"
    /\ st' = [st EXCEPT !.proc = "exited"]
    /\ UNCHANGED << progVars, event_queue, dl, ps, rq >>

\* stop_transfer on the main thread: aborted = True.
stream_abort ==
    /\ st.pc \notin {"idle", "returned"}
    /\ ~st.aborted
    /\ st' = [st EXCEPT !.aborted = TRUE]
    /\ UNCHANGED << progVars, event_queue, dl, ps, rq >>

\* _monitor_output, head of the loop: poll() is None, then the test of
\* app.aborted.
monitor_loop ==
    /\ st.pc = "loop"
    /\ st' = [st EXCEPT !.pc = IF st.proc = "alive" /\ ~st.aborted
                               THEN "readline" ELSE "drain"]
    /\ UNCHANGED << progVars, event_queue, dl, ps, rq >>

\* readline() returns the next line, or '' at end of file, and a line that
\* is not blank goes through _process_rclone_line.
monitor_readline ==
    /\ st.pc = "readline"
    /\ \/ /\ st.pipe # << >>
          /\ Head(st.pipe).text # Undecodable
          /\ LET evs == ForwardedAll(<< Head(st.pipe) >>)
             IN  /\ st' = [st EXCEPT !.pc = "loop", !.pipe = Tail(@), !.out = @ \o evs]
                 /\ Put([n \in DOMAIN evs |-> evs[n].tuple])
       \/ /\ st.pipe = << >>
          /\ st.proc = "exited"
          /\ st' = [st EXCEPT !.pc = "loop"]
          /\ UNCHANGED event_queue
    /\ UNCHANGED << progVars, dl, ps, rq >>

\* readline() raises UnicodeDecodeError: the wrapper decodes the bytes it
\* has read from the pipe in one piece, which may reach beyond the next line.
monitor_readline_raises ==
    /\ st.pc = "readline"
    /\ HoldsUndecodable(st.pipe)
    /\ st' = [st EXCEPT !.pc = "except"]
    /\ UNCHANGED << progVars, event_queue, dl, ps, rq >>

\* communicate(): once the process has exited, everything left in the pipe is
\* read and decoded in one piece, split into lines, and each line that is not
\* blank goes through _process_rclone_line; undecodable bytes make it raise.
monitor_drain ==
    /\ st.pc = "drain"
    /\ st.proc = "exited"
    /\ IF HoldsUndecodable(st.pipe)
       THEN /\ st' = [st EXCEPT !.pc = "except"]
            /\ UNCHANGED event_queue
       ELSE LET evs == ForwardedAll(st.pipe)
            IN  /\ st' = [st EXCEPT !.pc = "finally", !.pipe = << >>, !.out = @ \o evs]
                /\ Put([n \in DOMAIN evs |-> evs[n].tuple])
    /\ UNCHANGED << progVars, dl, ps, rq >>

\* run_transfer, except Exception: the 'Transfer failed' report.
stream_except ==
    /\ st.pc = "except"
    /\ Put(<< LogEv(None, "ERROR", MsgFailed) >>)
    /\ st' = [st EXCEPT !.pc = "finally"]
    /\ UNCHANGED << progVars, dl, ps, rq >>

\* run_transfer, finally: a process still alive is terminated, then
\* ('finished',) is put.  Nothing reads the pipe after this.
stream_finally ==
    /\ st.pc = "finally"
    /\ Put(<< FinishedEv(None) >>)
    /\ st' = [st EXCEPT !.pc = "returned", !.proc = "exited"]
    /\ UNCHANGED << progVars, dl, ps, rq >>

StreamInit ==
    /\ AppInit
    /\ NoPass
    /\ st = [pc |-> "loop", proc |-> "alive", aborted |-> FALSE, written |-> << >>,
             pipe |-> << >>, out |-> << >>]
    /\ dl = NoDelivery /\ ps = NoParse /\ rq = NoRequest

StreamNext ==
    \/ stream_write
    \/ stream_exit
    \/ stream_abort
    \/ monitor_loop
    \/ monitor_readline
    \/ monitor_readline_raises
    \/ monitor_drain
    \/ stream_except
    \/ stream_finally

StreamSpec == StreamInit /\ [][StreamNext]_vars

(***************************************************************************)
(* The program with the window's close button: on_close                    *)
(***************************************************************************)
\* on_close up to the blocking call: with a transfer in progress,
\* engine.stop() terminates the process and waits for it; without one the
\* handler goes on to the verification test at once.
on_close ==
    /\ ui.pc = "idle"
    /\ IF is_transferring /\ engine # None
       THEN IF EngineStopActs(engine)
            THEN /\ proc' = [proc EXCEPT ![engine] = Terminate(@)]
                 /\ ui' = [pc |-> "close_wait", e |-> engine]
                 /\ UNCHANGED event_queue
            ELSE /\ Put(<< FinishedEv(engine) >>)
                 /\ ui' = [pc |-> "close_sleep", e |-> engine]
                 /\ UNCHANGED proc
       ELSE /\ ui' = [pc |-> "close_exit", e |-> None]
            /\ UNCHANGED << proc, event_queue >>
    /\ UNCHANGED << appVars, nruns, tpc, running, verVars, hist >>

\* on_close after engine.stop(): wait(timeout=5) has returned or the process
\* has been killed; ('finished',) is put and the handler sleeps.
on_close_wait ==
    /\ ui.pc = "close_wait"
    /\ proc' = [proc EXCEPT ![ui.e] = Kill(@)]
    /\ Put(<< FinishedEv(ui.e) >>)
    /\ ui' = [ui EXCEPT !.pc = "close_sleep"]
    /\ UNCHANGED << appVars, nruns, tpc, running, verVars, hist >>

\* The answers on_close can get: with a verification running the user is
\* asked and may decline; otherwise the window closes.
CloseAnswers(verifying) == IF verifying THEN {TRUE, FALSE} ELSE {TRUE}

\* on_close from the verification test on: a declined prompt returns
\* (the main thread goes on at `back`); otherwise verifier.stop(),
\* logger.close(), destroy(), and the program with all its daemon threads is
\* over.
on_close_answer(back) ==
    /\ ui.pc \in {"close_sleep", "close_exit"}
    /\ \E exit \in CloseAnswers(is_verifying /\ verifier) :
         IF exit
         THEN /\ ui' = [pc |-> "closed", e |-> None]
              /\ vrunning' = (vrunning /\ ~(is_verifying /\ verifier))
         ELSE /\ ui' = [pc |-> back, e |-> None]
              /\ UNCHANGED vrunning
    /\ UNCHANGED << appVars, event_queue, runVars, vpc, vleft, verified_count,
                    failed_count, total_files, passVars, hist >>

\* A declined prompt returns to the main loop.
on_close_exit == on_close_answer("idle")

\* Once the window is destroyed nothing runs any more.  The close button is
\* followed for the first MaxRunsToClose transfers.
CloseNext ==
    \/ ui.pc # "closed" /\ Next /\ nruns' <= MaxRunsToClose
    \/ on_close
    \/ on_close_wait
    \/ on_close_exit

CloseSpec == Init /\ [][CloseNext]_vars

\* The close button clicked once, while a verification is running (the case
\* in which on_close asks for confirmation), in a session in which the Stop
\* button is not used.  The program is followed until on_close has returned:
\* "declined" is the main thread back from a prompt answered "no".
on_close_verifying == is_verifying /\ verifier /\ on_close

DeclineNext ==
    \/ ui.pc \notin {"closed", "declined"} /\ Next /\ ~aborted'
    \/ on_close_verifying
    \/ on_close_wait
    \/ on_close_answer("declined")

DeclineSpec == Init /\ [][DeclineNext]_vars

(***************************************************************************)
(* The program with its threads scheduled: every thread that can take a    *)
(* step eventually takes one, the main loop handles every queued event and *)
(* returns from wait(timeout=5), and a process that honours terminate()    *)
(* exits.  Nothing makes a process exit by itself, nor the user click.     *)
(***************************************************************************)
Thread(r) ==
    \/ T_Launch(r) \/ T_Run(r) \/ T_Monitor(r) \/ T_ReadLine(r) \/ T_Drain(r)
    \/ T_Finally(r) \/ T_FinallyWait(r) \/ T_Ret(r)

Fairness ==
    /\ WF_vars(stop_wait)
    /\ WF_vars(process_event)
    /\ \A r \in Runs : WF_vars(Thread(r)) /\ WF_vars(ProcTermExit(r))

FairSpec == Spec /\ Fairness

(***************************************************************************)
(* Properties                                                              *)
(***************************************************************************)
\* The copy process of run r is alive.
CopyActive(r) == proc[r].state = "alive"

\* run_transfer of run r has returned.
Ended(r) == tpc[r] \in {"ret", "done"}

\* Run r failed in one of the ways the pipeline calls Failed.
FailedRun(r) ==
    \/ hist[r].launch \in {"preflight", "notool", "spawnexc"}
    \/ hist[r].exit = "own1"

\* The user stopped run r.
AbortedRun(r) == hist[r].abort = "stop"

\* This step launches the verification of run r.
EntersVerifying(r) == vpc[r] = "idle" /\ vpc'[r] = "launch"

\* This step launches the copy process of run r.
Spawns(r) == proc[r].state = "none" /\ proc'[r].state = "alive"

\* C1: at most one run is in flight: in no reachable state are two copy
\* processes alive, or a copy process alive while another run is verifying.
C1_OneRunInFlight ==
    \A r, s \in Runs :
        r # s => ~(CopyActive(r) /\ (CopyActive(s) \/ Verifying(s)))

\* C2: a run that failed (pre-flight violation, missing tool, spawn
\* exception, nonzero exit) or was aborted never enters Verifying.
C2_FailedAndAbortedAreTerminal ==
    [][\A r \in Runs : EntersVerifying(r) => ~FailedRun(r) /\ ~AbortedRun(r)]_vars

\* C3: when the pre-flight check finds a violation, run_transfer ends the
\* run without launching a process, having put the error that names the
\* violation and the "Pre-flight check failed" error on the queue.
C3_PreflightViolationFails ==
    \A r \in Runs :
        hist[r].pre \in PreflightViolations =>
            /\ hist[r].launch = "preflight"
            /\ proc[r].state = "none"
            /\ ~running[r]
            /\ Ended(r)
            /\ {hist[r].pre, MsgPreFailed} \subseteq hist[r].errs

C3_Witness ==
    \E r \in Runs :
        /\ hist[r].pre \in {MsgNoSource, MsgNoMkdir, MsgSamePath}
        /\ tpc[r] = "done"
        /\ proc[r].state = "none"

C5_ExitCodeDecides ==
    [][\A r \in Runs :
         EntersVerifying(r) /\ hist[r].exit \in {"own0", "own1"}
            => hist[r].exit = "own0"]_vars

\* C6: an abort requested while verification is running is accepted: when a
\* run is verifying and the Stop button can be clicked, stop_transfer
\* passes its first test.
C6_AbortAcceptedWhileVerifying ==
    (ui.pc = "idle" /\ stop_btn = "normal" /\ \E r \in Runs : Verifying(r))
        => StopAccepted

C8_LadderOnEveryStop ==
    \A r \in Runs :
        (CopyActive(r) /\ proc[r].term)
            => (ui.pc = "stop_wait" /\ ui.e = r) \/ tpc[r] = "fwait"

\* C9: once abort is requested while run r is in Copying, run_transfer of
\* run r returns.
C9_AbortEndsStreaming ==
    \A r \in Runs : (aborted /\ Copying(r)) ~> Ended(r)

\* C10: when rclone.exe is missing, run_transfer ends the run without
\* launching a process, having put the error that names rclone.exe.
C10_MissingToolFails ==
    \A r \in Runs :
        hist[r].tool = "missing" =>
            /\ hist[r].launch = "notool"
            /\ proc[r].state = "none"
            /\ ~running[r]
            /\ Ended(r)
            /\ MsgNoTool \in hist[r].errs

C10_Witness ==
    \E r \in Runs :
        /\ hist[r].tool = "missing"
        /\ tpc[r] = "done"
        /\ proc[r].state = "none"

(***************************************************************************)
(* Properties of one verification pass                                     *)
(***************************************************************************)
\* verify_transfer is at its return and self.running is still True: nothing
\* stopped the pass.
ReturnsUnstopped == vt = "finally" /\ vrunning

\* Every listed file is of kind k, but for the files in the set except.
AllOfKind(k, except) == \A i \in Tasks \ except : source_files[i] = k

\* The as_completed loop has counted the result of file i.
Counted(i) == i \in DOMAIN future /\ future[i].seen

\* File i has an entry in failed_files.
Listed(i) == \E n \in DOMAIN failed_files : failed_files[n].file = i

ListedAs(i, err) ==
    \E n \in DOMAIN failed_files : failed_files[n] = FailureEntry(i, err)

\* C12: with size checking enabled, a file whose destination has another
\* length never reaches the hashes (_calculate_hash is not called for it),
\* its result is the size mismatch, and that is the reason listed for it.
C12_SizeMismatchSkipsHashing ==
    policy.verify_size =>
        \A i \in DOMAIN future :
            source_files[i] = "size" =>
                /\ ~future[i].hashed
                /\ future[i].st # "hashing"
                /\ future[i].st = "done" => future[i].result = MsgSizeMismatch
                /\ Counted(i) => ListedAs(i, MsgSizeMismatch)

C12_Witness ==
    /\ policy.verify_size /\ policy.verify_checksum
    /\ \E i \in DOMAIN future :
          /\ source_files[i] = "size"
          /\ Counted(i)
          /\ ListedAs(i, MsgSizeMismatch)
          /\ ~future[i].hashed

\* Exactly file m is of kind k and every other file is identical.
OnlyOdd(m, k) ==
    m \in Tasks /\ source_files[m] = k /\ AllOfKind("identical", {m})

C14_ContentMismatchAlone ==
    policy.verify_checksum =>
        /\ \A i \in DOMAIN future :
              (source_files[i] = "content" /\ Counted(i))
                  => ListedAs(i, MsgHashMismatch)
        /\ \A m \in Tasks :
              (ReturnsUnstopped /\ OnlyOdd(m, "content")) =>
                  /\ \A i \in Tasks \ {m} : future[i].result = "success"
                  /\ returned = [made |-> TRUE,
                                 verified |-> Len(source_files) - 1,
                                 failed |-> 1,
                                 failures |-> << FailureEntry(m, MsgHashMismatch) >>]

C14_Witness ==
    /\ policy.verify_checksum
    /\ ReturnsUnstopped
    /\ Len(source_files) = MaxTasks
    /\ \E m \in Tasks : OnlyOdd(m, "content") /\ ListedAs(m, MsgHashMismatch)
    /\ returned.made /\ returned.failed = 1

\* What the contents of a file of kind k amount to under the policy pol: the
\* destination exists, the source can be read, the lengths agree if they are
\* compared and the bytes agree if they are hashed.
Matches(k, pol) ==
    /\ k \notin {"missing", "vanished", "stalls"}
    /\ pol.verify_size => k # "size"
    /\ pol.verify_checksum => k \notin {"size", "content"}

\* C15: the counts of a pass that was not stopped are fixed by the task list
\* and the file contents, whatever the order of completion: verified is the
\* number of matching files, failed the number of the others, and the two
\* add up to the number of tasks.
C15_CountsIndependentOfOrder ==
    ReturnsUnstopped =>
        /\ returned.made
        /\ returned.verified =
              Cardinality({i \in Tasks : Matches(source_files[i], policy)})
        /\ returned.failed =
              Cardinality({i \in Tasks : ~Matches(source_files[i], policy)})
        /\ returned.verified + returned.failed = Len(source_files)

\* Results arrived in another order than the files were submitted.
C15_Witness ==
    /\ ReturnsUnstopped
    /\ returned.verified >= 1
    /\ \E a, b \in DOMAIN returned.failures :
          a < b /\ returned.failures[a].file > returned.failures[b].file

\* The reason _verify_file or the loop gives for a file of kind k that does
\* not match under the policy pol.
Reason(k, pol) ==
    IF k = "missing" THEN MsgDstNotFound
    ELSE IF k = "vanished" THEN MsgOSError
    ELSE IF k = "size" /\ pol.verify_size THEN MsgSizeMismatch
    ELSE MsgHashMismatch

\* A failures list of a summary with the count failed: one entry per failed
\* file, each naming a file of the task list that does not match and the
\* reason for that file.
WellFormedFailures(failures, failed) ==
    /\ Len(failures) = failed
    /\ \A a, b \in DOMAIN failures : failures[a].file = failures[b].file => a = b
    /\ \A a \in DOMAIN failures :
          /\ failures[a].file \in Tasks
          /\ ~Matches(source_files[failures[a].file], policy)
          /\ failures[a].error = Reason(source_files[failures[a].file], policy)

\* C16: the failures list kept by the loop, the one in the returned tuple
\* and the one in every verify_complete event have one entry per failed
\* file (length = failed count), each naming the file and its reason.
C16_FailuresListMatchesCount ==
    /\ WellFormedFailures(failed_files, failed_count)
    /\ returned.made => WellFormedFailures(returned.failures, returned.failed)
    /\ \A n \in DOMAIN event_queue :
          event_queue[n].type = "verify_complete"
              => WellFormedFailures(event_queue[n].failures, event_queue[n].failed)

C16_Witness ==
    /\ returned.made
    /\ returned.failed >= 2
    /\ \E a, b \in DOMAIN returned.failures :
          returned.failures[a].error # returned.failures[b].error
    /\ \E n \in DOMAIN event_queue :
          /\ event_queue[n].type = "verify_complete"
          /\ event_queue[n].failures = returned.failures

\* C17: a task that stalls is counted as a failure and the pass goes on to
\* its summary: every call of verify_transfer returns, whatever the files.
C17_StalledTaskDoesNotBlock == <>(returned.made)

\* C18: once the stop flag is set (self.running is False), a task that no
\* worker has taken yet is skipped: it is never started.
C18_StoppedTasksAreSkipped ==
    [][\A i \in DOMAIN future :
          (future[i].st = "queued" /\ ~vrunning) => future'[i].st = "queued"]_vars

ExecutingTasks == {i \in DOMAIN future : Executing(i)}

\* C20: at every moment the number of verification tasks executing at once
\* is at most max_workers, however many tasks were submitted.
C20_BoundedPool == Cardinality(ExecutingTasks) <= max_workers

\* The pool is full and a submitted task waits for a worker.
C20_Witness ==
    /\ Cardinality(ExecutingTasks) = max_workers
    /\ \E i \in DOMAIN future : future[i].st = "queued"

(***************************************************************************)
(* Properties of the hand-over of events                                   *)
(***************************************************************************)
\* The tuples of run r in the sequence s, by their production numbers.
OfRun(s, r) == SelectSeq(s, LAMBDA e : e.run = r)

\* C21: process_event handles the tuples of one run in the order the run's
\* worker thread put them: of two handled tuples of the same run, the one
\* handled first was put first.
C21_EventsHandledInOrder ==
    \A r \in Runs :
        LET h == OfRun(dl.handled, r)
        IN  \A a, b \in DOMAIN h : a < b => h[a].verified < h[b].verified

\* Everything two workers put has been handled, their tuples interleaved.
C21_Witness ==
    /\ Len(dl.handled) = MaxRuns * MaxEvents
    /\ \E n \in 1..(Len(dl.handled) - 2) :
          /\ dl.handled[n].run = dl.handled[n + 2].run
          /\ dl.handled[n].run # dl.handled[n + 1].run

(***************************************************************************)
(* Properties of the handling of one output line                           *)
(***************************************************************************)
\* The progress tuples waiting on the queue.
QueuedProgress == { n \in DOMAIN event_queue : event_queue[n].type = "progress" }

\* The line has gone through _process_rclone_line and the main thread has
\* not handled any of its tuples yet.
LinePut ==
    /\ ps.pc = "put"
    /\ event_queue # << >>
    /\ Head(event_queue) = LineLog("INFO", ps.line)

\* Every tuple of the line has been handled.
LineHandled == ps.pc = "put" /\ event_queue = << >>

\* An aggregate line: it carries the summary marker.
AggregateLine(l) == \E i \in DOMAIN l : l[i] = "Transferred:"

OtherThanLineLogs ==
    { n \in DOMAIN event_queue :
        ~(/\ event_queue[n].type = "log"
          /\ event_queue[n].level \in {"INFO", "ERROR"}
          /\ event_queue[n].msg = ps.line) }

\* For a progress tuple of the line, a missing speed or ETA is the placeholder.
PlaceholdersForMissing ==
    \A n \in QueuedProgress :
        /\ SpeedMatches(ps.line) = {} => event_queue[n].speed = << "N/A" >>
        /\ EtaMatches(ps.line) = {} => event_queue[n].eta = "N/A"

FirstPercentIs(l, s) ==
    PercentMatches(l) # {} /\ l[First(PercentMatches(l))] = s

ToolsInvoked(r) == IF proc[r].state # "none" THEN {"rclone"} ELSE {}

\* The step is process_event handling a tuple of the given type.
Handles(type) ==
    /\ ui.pc = "idle"
    /\ event_queue # << >>
    /\ event_queue' = Tail(event_queue)
    /\ Head(event_queue).type = type

BothWroteTransferring(r) == r <= nruns /\ tpc[r] = "done"

\* is_verifying has been written by the launch_verification thread of pass r
\* and on the main thread (on_verification_start for that pass).
BothWroteVerifying(r) ==
    /\ vpc[r] \in {"collect", "complete", "finally", "done"}
    /\ \A n \in DOMAIN event_queue :
          ~(event_queue[n].type = "verify_start" /\ event_queue[n].run = r)

\* C26: no flag of a run is written both by the main thread and by a
\* worker thread.
C26_OneWriterPerFlag ==
    \A r \in Runs : ~BothWroteTransferring(r) /\ ~BothWroteVerifying(r)

\* C27: the copy and the verification of a run use the paths and the
\* verification policy as they were when the run started.
C27_RequestFixedAtStart ==
    /\ rq.pc \in {"copying", "finished", "done"}
          => rq.copy.verify_checksum = rq.atstart.verify_checksum
    /\ rq.pc = "done"
          => /\ (rq.atstart.verify_checksum \/ rq.atstart.verify_file_size)
                   <=> rq.verify # Unused
             /\ rq.verify # Unused
                   => rq.verify = [source |-> rq.copy.source,
                                   destination |-> rq.copy.destination,
                                   verify_checksum |-> rq.atstart.verify_checksum,
                                   verify_size |-> rq.atstart.verify_file_size,
                                   algorithm |-> rq.atstart.checksum_algorithm]

\* The error reports run r has put on the queue.
ErrorReports(r) == hist[r].errs

\* C28: a run that has failed has put exactly one error report.
C28_OneReportPerFailure ==
    \A r \in Runs :
        (Ended(r) /\ FailedRun(r)) => Cardinality(ErrorReports(r)) = 1

(***************************************************************************)
(* Properties of the output stream                                         *)
(***************************************************************************)
\* The numbers of the lines forwarded as raw log text, in the order of
\* forwarding.
RECURSIVE ForwardedLines(_)
ForwardedLines(out) ==
    IF out = << >> THEN << >>
    ELSE (IF Head(out).tuple.type = "log" /\ Head(out).tuple.level = "INFO"
          THEN << Head(out).id >> ELSE << >>)
         \o ForwardedLines(Tail(out))

\* The numbers of the lines written that are not blank, in the order of
\* writing.
RECURSIVE WrittenLines(_)
WrittenLines(written) ==
    IF written = << >> THEN << >>
    ELSE (IF NonBlank(Head(written)) THEN << Head(written).id >> ELSE << >>)
         \o WrittenLines(Tail(written))

\* C29: when run_transfer returns, every line the process wrote that is not
\* blank has been forwarded as log text exactly once, in the order written.
C29_EveryLineForwardedOnce ==
    st.pc = "returned" => ForwardedLines(st.out) = WrittenLines(st.written)

(***************************************************************************)
(* Properties of the finished tuple                                        *)
(***************************************************************************)
\* The finished tuples of run r waiting on the queue.
QueuedFinished(r) == { n \in DOMAIN event_queue : event_queue[n] = FinishedEv(r) }

\* C30: a run has at most one finished tuple, the one run_transfer puts in
\* its finally block when the run is over.
C30_OneFinishedPerRun ==
    \A r \in Runs :
        /\ Cardinality(QueuedFinished(r)) <= 1
        /\ QueuedFinished(r) # {} => Ended(r)

(***************************************************************************)
(* Properties of the verification passes on the shared verifier            *)
(***************************************************************************)
\* The launch_verification thread of pass r is inside verify_transfer.
InVerifyTransfer(r) == vpc[r] \in {"collect", "complete", "finally"}

\* C31: at most one verify_transfer call is executing on the shared
\* ChecksumVerifier.
C31_OnePassAtATime ==
    Cardinality({ r \in Runs : InVerifyTransfer(r) }) <= 1

\* The step is on_transfer_finished for run r past its first test: it
\* either logs 'Transfer completed. Starting verification...' and launches
\* the verification, or logs the success 'Transfer completed successfully'.
ReportsCompletion(r) ==
    /\ Handles("finished")
    /\ Head(event_queue).run = r
    /\ engine # None

\* The copy of run r did not start or did not succeed.
CopyFailed(r) == FailedRun(r) \/ MsgFailed \in hist[r].errs

\* C32: no completion is reported for a run the user aborted or whose copy
\* did not start or did not succeed.
C32_NoCompletionAfterFailure ==
    [][\A r \in Runs :
         ReportsCompletion(r) => ~(AbortedRun(r) \/ CopyFailed(r))]_vars

\* The tuples of the given type the pass has put, by position on the queue.
QueuedOfType(type) == { n \in DOMAIN event_queue : event_queue[n].type = type }

\* verified + failed <= total in every verify_progress tuple, with the total
\* announced by verify_start.
ProgressWithinTotal ==
    \A n \in QueuedOfType("verify_progress") :
        /\ event_queue[n].verified + event_queue[n].failed <= event_queue[n].total
        /\ \A s \in QueuedOfType("verify_start") :
              event_queue[n].total = event_queue[s].total

\* The counts of the verify_progress tuples never decrease.
ProgressMonotone ==
    \A m, n \in QueuedOfType("verify_progress") :
        m < n => /\ event_queue[m].verified <= event_queue[n].verified
                 /\ event_queue[m].failed <= event_queue[n].failed

\* Every counted result has put a verify_progress tuple: the counts of
\* verify_complete are those of the last verify_progress tuple, and zero if
\* there is none.
CompleteAgreesWithProgress ==
    \A c \in QueuedOfType("verify_complete") :
        /\ Cardinality(QueuedOfType("verify_progress"))
              = event_queue[c].verified + event_queue[c].failed
        /\ \A n \in QueuedOfType("verify_progress") :
              (\A m \in QueuedOfType("verify_progress") : m <= n)
                 => /\ event_queue[n].verified = event_queue[c].verified
                    /\ event_queue[n].failed = event_queue[c].failed

\* C33: within one pass the verify_progress tuples stay within the announced
\* total, never decrease, and account for every counted result.
C33_ProgressAccountsForEveryResult ==
    ProgressWithinTotal /\ ProgressMonotone /\ CompleteAgreesWithProgress

\* C34: every verify_start is eventually followed by exactly one
\* verify_complete of the same pass.
C34_StartLeadsToOneComplete ==
    /\ [](Cardinality(QueuedOfType("verify_complete")) <= 1)
    /\ (QueuedOfType("verify_start") # {}) ~> (QueuedOfType("verify_complete") # {})

(***************************************************************************)
(* Properties of the copy process at the end of run_transfer               *)
(***************************************************************************)
\* The step in which run_transfer of run r puts ('finished',) and returns.
Returns(r) == tpc[r] \in {"run", "finally", "fwait"} /\ tpc'[r] = "ret"

\* C35: when run_transfer returns, a process the run has started has exited
\* by itself, after terminate(), or has been killed.
C35_NoProcessOutlivesRun ==
    [][\A r \in Runs :
         (Returns(r) /\ hist'[r].launch = "spawned")
            => hist'[r].exit \in {"own0", "own1", "term", "kill"}]_vars

\* run_transfer has returned through the except branch after its process,
\* which ignored terminate(), was killed.
C35_Witness ==
    \E r \in Runs :
        /\ tpc[r] = "ret"
        /\ hist[r].launch = "spawned"
        /\ MsgFailed \in hist[r].errs
        /\ hist[r].exit = "kill"

(***************************************************************************)
(* Properties of the exit confirmation                                     *)
(***************************************************************************)
\* terminate() has reached the copy process of run r while its run_transfer
\* is still before the terminate() of its own finally block: the process was
\* stopped from the main thread.
StoppedByMainThread(r) ==
    proc[r].term /\ tpc[r] \in {"monitor", "readline", "drain", "finally"}

\* This step is the user answering "no" to on_close's confirmation.
Declines == ui.pc # "declined" /\ ui'.pc = "declined"

\* C36: declining the exit confirmation leaves the running work untouched:
\* the answer itself changes nothing (window, verification, transfer, queue),
\* and when on_close returns no copy process has been stopped by the main
\* thread and the queue holds no finished tuple but the one an ended
\* run_transfer put.
C36_DeclineLeavesWorkUntouched ==
    [][Declines =>
         /\ UNCHANGED << appVars, event_queue, runVars, verVars >>
         /\ \A r \in Runs :
              /\ ~StoppedByMainThread(r)
              /\ Cardinality(QueuedFinished(r)) <= 1
              /\ QueuedFinished(r) # {} => Ended(r)]_vars

(***************************************************************************)
(* Properties of the verification policy                                   *)
(***************************************************************************)
\* The test of on_transfer_finished on the settings cfg_mgr holds.
PolicyEnabled(cfg) == cfg.verify_checksum \/ cfg.verify_file_size

\* This step is on_transfer_finished deciding about the verification.
DecidesVerification == rq.pc = "copying" /\ rq'.pc # "copying"

\* A verification is launched exactly when a check is enabled at the moment
\* of the decision, and verify_transfer (which puts verify_start) is called
\* by a launched verification only.
LaunchFollowsPolicy ==
    /\ DecidesVerification => (rq'.pc = "finished" <=> PolicyEnabled(rq.cfg))
    /\ rq.pc \in {"started", "copying", "done"} => rq'.verify = rq.verify

\* os.path.exists(dst_file) for a file of kind k.
DestinationExists(k) == k # "missing"

\* With both checks disabled a finished task has succeeded exactly when its
\* destination file exists.
TaskFollowsPolicy ==
    (~policy.verify_checksum /\ ~policy.verify_size)
        => \A i \in DOMAIN future :
               future[i].st = "done"
                   => (future[i].result = "success"
                          <=> DestinationExists(source_files[i]))

\* C37: verification is policy-driven: a pass is launched after the copy
\* only if checksum or size verification is enabled, with both disabled no
\* verify_start is emitted for the run, and within a pass a task with both
\* checks disabled succeeds exactly when the destination file exists.
C37_VerificationFollowsPolicy ==
    [][LaunchFollowsPolicy]_vars /\ []TaskFollowsPolicy
====
